---- MODULE Spec2Model ----
(***************************************************************************)
(* Vimshottari Dasha calculator (src/src/calculations/dasha_calculator.py) *)
(* as a state machine.                                                     *)
(*                                                                         *)
(* Instants are integers counting minutes; a span of y years is            *)
(* y * 365.25 days = y * YearTicks minutes.  Moon longitudes are exact     *)
(* decimals with nine fractional digits, [deg |-> d, nano |-> n] standing  *)
(* for d + n / 10^9 degrees, so that the divisor 13.333333333 of the       *)
(* source is represented exactly.  A float number of years is the exact    *)
(* rational [t |-> q, r |-> b]: q + b / NakshatraWidth minutes, with       *)
(* 0 <= b < NakshatraWidth.  timedelta(days = x) rounds x to the nearest   *)
(* minute here (to the nearest microsecond in the source).                 *)
(*                                                                         *)
(* Planetary afflictions (src/src/calculations/planetary_afflictions.py)   *)
(* as operators of the birth date and of what the ephemeris answers, and   *)
(* the Transit Analysis page that calls them.  Longitudes there are whole  *)
(* degrees; a datetime is its count of minutes, date.toordinal() * 1440    *)
(* + minute of the day.                                                    *)
(*                                                                         *)
(* The birth form (src/components/birth_form.py) and its validation, which *)
(* fill the session the pages read.                                        *)
(***************************************************************************)
EXTENDS Integers, Sequences, FiniteSets, TLC

\* ------------------------------------------------------------------ bounds
MaxAgeYears == 121

\* ------------------------------------------------------------ time scale
MinutesPerDay == 1440
YearTicks == 525960
Giga == 1000000000

\* --------------------------------------------------------- rule tables
Planets == {"Sun", "Moon", "Mars", "Rahu", "Jupiter", "Saturn", "Mercury", "Ketu", "Venus"}

\* the table with a Venus period of 21 years: a cycle of 121 years
DASHA_PERIODS_121 ==
    [p \in Planets |->
        CASE p = "Sun" -> 6
          [] p = "Moon" -> 10
          [] p = "Mars" -> 7
          [] p = "Rahu" -> 18
          [] p = "Jupiter" -> 16
          [] p = "Saturn" -> 19
          [] p = "Mercury" -> 17
          [] p = "Ketu" -> 7
          [] p = "Venus" -> 21]

DASHA_PERIODS ==
    [p \in Planets |->
        CASE p = "Sun" -> 6
          [] p = "Moon" -> 10
          [] p = "Mars" -> 7
          [] p = "Rahu" -> 18
          [] p = "Jupiter" -> 16
          [] p = "Saturn" -> 19
          [] p = "Mercury" -> 17
          [] p = "Ketu" -> 7
          [] p = "Venus" -> 20]

NAKSHATRA_LORDS ==
    << "Ketu", "Venus", "Sun", "Moon", "Mars", "Rahu", "Jupiter", "Saturn", "Mercury",
       "Ketu", "Venus", "Sun", "Moon", "Mars", "Rahu", "Jupiter", "Saturn", "Mercury",
       "Ketu", "Venus", "Sun", "Moon", "Mars", "Rahu", "Jupiter", "Saturn", "Mercury" >>

planet_sequence_by_weekday ==
    << "Sun", "Moon", "Mars", "Mercury", "Jupiter", "Venus", "Saturn", "Rahu", "Ketu" >>

\* list(self.DASHA_PERIODS.keys()): the dict's insertion order
planet_sequence ==
    << "Sun", "Moon", "Mars", "Rahu", "Jupiter", "Saturn", "Mercury", "Ketu", "Venus" >>

\* planet_sequence.index(p), 1-based
SeqIndexOf(p) == CHOOSE i \in 1..Len(planet_sequence) : planet_sequence[i] = p

\* (i + 1) % len(planet_sequence), on 1-based indices
NextIndex(i) == (i % Len(planet_sequence)) + 1

\* ------------------------------------------- exact decimal arithmetic
Dec(d, n) == [deg |-> d, nano |-> n]
DecZero == Dec(0, 0)
DecLt(a, b) == a.deg < b.deg \/ (a.deg = b.deg /\ a.nano < b.nano)
DecLeq(a, b) == a = b \/ DecLt(a, b)
DecAdd(a, b) ==
    LET n == a.nano + b.nano
    IN  Dec(a.deg + b.deg + (n \div Giga), n % Giga)
DecSub(a, b) ==
    LET n == a.nano - b.nano
    IN  IF n >= 0 THEN Dec(a.deg - b.deg, n) ELSE Dec(a.deg - b.deg - 1, n + Giga)

\* the literal 13.333333333
NakshatraWidth == Dec(13, 333333333)

\* <<int(x / 13.333333333), x % 13.333333333>>
RECURSIVE DivModWidth(_)
DivModWidth(x) ==
    IF DecLt(x, NakshatraWidth) THEN << 0, x >>
    ELSE LET rest == DivModWidth(DecSub(x, NakshatraWidth))
         IN  << rest[1] + 1, rest[2] >>

\* ---------------------------------------- rationals over NakshatraWidth
Real(q, b) == [t |-> q, r |-> b]
RealOfInt(n) == Real(n, DecZero)
RealAdd(a, b) ==
    LET s == DecAdd(a.r, b.r)
    IN  IF DecLeq(NakshatraWidth, s) THEN Real(a.t + b.t + 1, DecSub(s, NakshatraWidth))
        ELSE Real(a.t + b.t, s)
RealNeg(a) ==
    IF a.r = DecZero THEN Real(0 - a.t, DecZero)
    ELSE Real(0 - a.t - 1, DecSub(NakshatraWidth, a.r))
RealSub(a, b) == RealAdd(a, RealNeg(b))
RealLeq(a, b) == a.t < b.t \/ (a.t = b.t /\ DecLeq(a.r, b.r))
RealLt(a, b) == a.t < b.t \/ (a.t = b.t /\ DecLt(a.r, b.r))

\* x / 13.333333333 for 0 <= x <= 13.333333333
Fraction(x) == IF x = NakshatraWidth THEN RealOfInt(1) ELSE Real(0, x)

\* n * x / 13.333333333 for a natural n and 0 <= x <= 13.333333333, exactly
\* (binary expansion of n; the half product is bound once, as a value)
RECURSIVE MulDivWidth(_, _)
MulDivWidth(n, x) ==
    IF n = 0 THEN RealOfInt(0)
    ELSE CHOOSE product \in
             { IF n % 2 = 1 THEN RealAdd(RealAdd(h, h), Fraction(x)) ELSE RealAdd(h, h) :
                   h \in { MulDivWidth(n \div 2, x) } } : TRUE

\* the same, cut down to the whole minute instead of rounded
TimedeltaCut(years) == years.t

\* timedelta(days = years * 365.25), in minutes, rounded to the nearest one
Timedelta(years) ==
    IF DecLt(NakshatraWidth, DecAdd(years.r, years.r)) THEN years.t + 1 ELSE years.t

\* y whole years as a float number of years
Years(y) == RealOfInt(y * YearTicks)

\* timedelta.days / 365.25: whole days (floored), as years
DaysAsYears(delta) == RealOfInt((delta \div MinutesPerDay) * MinutesPerDay)

\* ------------------------------------------------------- call results
NotCalled == [state |-> "not_called"]
Running == [state |-> "running"]
None == [state |-> "returned", none |-> TRUE]
Some(v) == [state |-> "returned", none |-> FALSE, value |-> v]
IsSome(x) == x.state = "returned" /\ ~x.none

\* ------------------------------------------------ ephemeris (external)
\* swe.calc_ut(jd, swe.MOON): a longitude in [0, 360), or an exception
EphemerisError == [ok |-> FALSE]
Longitude(d, n) == [ok |-> TRUE, lon |-> Dec(d, n)]

\* ------------------------------------------------- the pure functions
calculate_moon_nakshatra(eph) ==
    IF ~eph.ok THEN None
    ELSE LET dm == DivModWidth(eph.lon)
             nakshatra_number == dm[1] + 1
         IN  IF nakshatra_number - 1 >= Len(NAKSHATRA_LORDS) THEN None
             ELSE Some([nakshatra_number |-> nakshatra_number,
                        nakshatra_degree |-> dm[2],
                        moon_longitude |-> eph.lon,
                        nakshatra_lord |-> NAKSHATRA_LORDS[nakshatra_number]])

RemainingYearsTransited(total_period_years, nakshatra_degree) ==
    MulDivWidth(total_period_years * YearTicks, nakshatra_degree)

\* total_period_years * (1 - nakshatra_degree / 13.333333333)
RemainingYears(total_period_years, nakshatra_degree) ==
    MulDivWidth(total_period_years * YearTicks, DecSub(NakshatraWidth, nakshatra_degree))

calculate_dasha_start_date(birth, eph) ==
    LET nakshatra_data == calculate_moon_nakshatra(eph)
    IN  IF ~IsSome(nakshatra_data) THEN None
        ELSE LET ruling_planet == nakshatra_data.value.nakshatra_lord
                 total_period_years == DASHA_PERIODS[ruling_planet]
                 remaining_years == RemainingYears(total_period_years,
                                                   nakshatra_data.value.nakshatra_degree)
                 completed_years == RealSub(Years(total_period_years), remaining_years)
             IN  Some([ruling_planet |-> ruling_planet,
                       dasha_start_date |-> birth - Timedelta(completed_years),
                       total_period_years |-> total_period_years,
                       completed_at_birth_years |-> completed_years,
                       remaining_at_birth_years |-> remaining_years,
                       nakshatra_data |-> nakshatra_data.value])

\* ============================================================ afflictions
\* Planetary afflictions calculator
\* (src/src/calculations/planetary_afflictions.py) and the page that calls
\* it (src/pages/05_Transit_Analysis.py).  Longitudes are whole degrees here;
\* instants are minutes counted from the start of day 0 of the proleptic
\* Gregorian calendar (date.toordinal() days, 1440 minutes each).

\* --------------------------------------------- datetime.date / datetime
IsLeap(y) == (y % 4 = 0 /\ y % 100 # 0) \/ y % 400 = 0

DaysInMonth(y, m) ==
    IF m = 2 THEN (IF IsLeap(y) THEN 29 ELSE 28)
    ELSE IF m \in {4, 6, 9, 11} THEN 30 ELSE 31

DaysBeforeYear(y) == (y - 1) * 365 + (y - 1) \div 4 - (y - 1) \div 100 + (y - 1) \div 400

RECURSIVE DaysBeforeMonth(_, _)
DaysBeforeMonth(y, m) ==
    IF m = 1 THEN 0 ELSE DaysBeforeMonth(y, m - 1) + DaysInMonth(y, m - 1)

\* datetime(y, m, d) raises ValueError unless the day exists
ValidDate(y, m, d) == m \in 1..12 /\ d \in 1..DaysInMonth(y, m)

Ordinal(y, m, d) == DaysBeforeYear(y) + DaysBeforeMonth(y, m) + d

\* datetime(y, m, d, hour, minute) as an instant
Datetime(y, m, d, minute_of_day) == Ordinal(y, m, d) * MinutesPerDay + minute_of_day

\* a datetime.date, which has no attribute 'hour'
Date(y, m, d) == [kind |-> "date", year |-> y, month |-> m, day |-> d]

\* a datetime.datetime
DateAndTime(y, m, d, h, mi) ==
    [kind |-> "datetime", year |-> y, month |-> m, day |-> d, hour |-> h, minute |-> mi]

\* hasattr(birth_date, 'hour')
HasHour(date) == date.kind = "datetime"

\* timedelta(days = n)
Days(n) == n * MinutesPerDay

\* int(years * 365.25), for a number of years given in tenths
IntDays(tenths_of_year) == (tenths_of_year * 36525) \div 1000

\* the instant julian_day(date) stands for: the time of a datetime, noon of
\* a date
julian_day(date) ==
    IF HasHour(date)
    THEN Datetime(date.year, date.month, date.day, date.hour * 60 + date.minute)
    ELSE Datetime(date.year, date.month, date.day, 12 * 60)

\* --------------------------------------------------- ephemeris (external)
\* What swe.calc_ut answers during one request: sky.natal[planet] at
\* julian_day(birth_date), sky.transit[k] for Saturn at the k-th later sample
\* instant.  Each answer is a longitude in whole degrees or an exception.
Position(d) == [ok |-> TRUE, longitude |-> d]

Bodies == << "sun", "moon", "mars", "mercury", "jupiter", "venus", "saturn" >>

Queried == { Bodies[i] : i \in 1..Len(Bodies) } \cup { "rahu" }

get_sign_name(sign_num) ==
    LET signs == << "Aries", "Taurus", "Gemini", "Cancer", "Leo", "Virgo",
                    "Libra", "Scorpio", "Sagittarius", "Capricorn", "Aquarius", "Pisces" >>
    IN  IF 1 <= sign_num /\ sign_num <= 12 THEN signs[sign_num] ELSE "Unknown"

\* the dictionary built from one answer of swe.calc_ut
PositionOf(longitude) ==
    Some([longitude |-> longitude,
          sign |-> (longitude \div 30) + 1,
          degree |-> longitude % 30,
          sign_name |-> get_sign_name((longitude \div 30) + 1)])

\* lines 103-125; the instant is that of the birth chart
get_planet_position(planet, natal) ==
    IF planet = "ketu"
    THEN IF natal["rahu"].ok THEN PositionOf((natal["rahu"].longitude + 180) % 360) ELSE None
    ELSE IF natal[planet].ok THEN PositionOf(natal[planet].longitude) ELSE None

\* Saturn at the sample instant current_date of the loops, the k-th after
\* the first: the first sample of a datetime birth is the instant of the birth
\* chart itself; the ephemeris has no answer past the samples it was asked
\* for
saturn_position(birth_date, sky, current_date, k) ==
    IF current_date = julian_day(birth_date)
    THEN get_planet_position("saturn", sky.natal)
    ELSE IF k \in DOMAIN sky.transit /\ sky.transit[k].ok
         THEN PositionOf(sky.transit[k].longitude)
         ELSE None

\* lines 135-139
get_moon_sign(sky) ==
    LET moon_pos == get_planet_position("moon", sky.natal)
    IN  IF IsSome(moon_pos) THEN Some(moon_pos.value.sign) ELSE None

\* ------------------------------------------------- what a call comes to
Raised == [state |-> "raised"]

\* lines 151 and 154: where the sampling starts
FirstSample(birth_date) ==
    IF ~HasHour(birth_date)
    THEN Datetime(birth_date.year, birth_date.month, birth_date.day, 0)
    ELSE julian_day(birth_date)

\* a horizon of two centuries
Horizon200(birth_date) ==
    IF ~HasHour(birth_date)
    THEN IF ValidDate(birth_date.year + 200, birth_date.month, birth_date.day)
         THEN Some([current_date |-> FirstSample(birth_date),
                    end_date |->
                        Datetime(birth_date.year + 200, birth_date.month, birth_date.day, 0)])
         ELSE Raised
    ELSE Some([current_date |-> FirstSample(birth_date),
               end_date |-> FirstSample(birth_date) + Days(365 * 200)])

\* lines 148-155 and 221-228: the first sample instant and the end date, or
\* the ValueError of datetime(year + 100, month, day)
Horizon100(birth_date) ==
    IF ~HasHour(birth_date)
    THEN IF ValidDate(birth_date.year + 100, birth_date.month, birth_date.day)
         THEN Some([current_date |-> FirstSample(birth_date),
                    end_date |->
                        Datetime(birth_date.year + 100, birth_date.month, birth_date.day, 0)])
         ELSE Raised
    ELSE Some([current_date |-> FirstSample(birth_date),
               end_date |-> FirstSample(birth_date) + Days(365 * 100)])

\* ------------------------------------------ calculate_sade_sathi_periods
\* the signs one further
TargetSignOff(moon_sign, house) == ((moon_sign + house - 1) % 12) + 1

\* line 173
TargetSign(moon_sign, house) == ((moon_sign + house - 2) % 12) + 1

\* lines 171-174
houses_from_moon(moon_sign) ==
    << TargetSign(moon_sign, 12), TargetSign(moon_sign, 1), TargetSign(moon_sign, 2) >>

\* a record that lasts as long as the step between two samples
SadeSathiPeriodLong(moon_sign, saturn_sign, current_date) ==
    LET houses == houses_from_moon(moon_sign)
    IN  [name |-> "Sade Sathi",
         phase |-> IF saturn_sign = houses[1] THEN "Rising (Arohini)"
                   ELSE IF saturn_sign = houses[2] THEN "Peak (Madhya)"
                   ELSE "Setting (Avarohi)",
         intensity |-> IF saturn_sign = houses[2] THEN "High" ELSE "Moderate",
         start_date |-> current_date,
         end_date |-> current_date + Days(IntDays(295)) + Days(1),
         duration_years |-> 75,
         moon_sign |-> get_sign_name(moon_sign),
         saturn_house |-> 2]

\* lines 176-207: the record appended at one sample instant; 'house' is what
\* the loop over [12, 1, 2] left behind
SadeSathiPeriod(moon_sign, saturn_sign, current_date) ==
    LET houses == houses_from_moon(moon_sign)
        phase == IF saturn_sign = houses[1] THEN "Rising (Arohini)"
                 ELSE IF saturn_sign = houses[2] THEN "Peak (Madhya)"
                 ELSE "Setting (Avarohi)"
        intensity == IF saturn_sign = houses[2] THEN "High" ELSE "Moderate"
    IN  [name |-> "Sade Sathi",
         phase |-> phase,
         intensity |-> intensity,
         start_date |-> current_date,
         end_date |-> current_date + Days(IntDays(75)),
         duration_years |-> 75,
         moon_sign |-> get_sign_name(moon_sign),
         saturn_house |-> 2]

\* lines 161-210: the loop, from one sample instant on; samples lists the
\* instants at which the loop body ran
RECURSIVE sade_sathi_loop(_, _, _, _, _, _)
sade_sathi_loop(birth_date, sky, moon_sign, end_date, current_date, run) ==
    IF ~(current_date < end_date /\ run.cycle_count < 4)
    THEN run
    ELSE LET saturn_pos == saturn_position(birth_date, sky, current_date, Len(run.samples))
             hit == /\ IsSome(saturn_pos)
                    /\ \E i \in 1..3 : houses_from_moon(moon_sign)[i] = saturn_pos.value.sign
             after ==
                 [periods |-> IF hit
                              THEN Append(run.periods,
                                          SadeSathiPeriod(moon_sign, saturn_pos.value.sign,
                                                          current_date))
                              ELSE run.periods,
                  cycle_count |-> IF hit THEN run.cycle_count + 1 ELSE run.cycle_count,
                  samples |-> Append(run.samples, current_date)]
         IN  sade_sathi_loop(birth_date, sky, moon_sign, end_date,
                             current_date + Days(IntDays(295)), after)

NoRun == [periods |-> << >>, cycle_count |-> 0, samples |-> << >>]

\* lines 141-212, with the sample instants of the loop
sade_sathi_run(birth_date, sky) ==
    LET moon_sign == get_moon_sign(sky)
        horizon == Horizon100(birth_date)
    IN  IF ~IsSome(moon_sign) THEN Some(NoRun)
        ELSE IF horizon = Raised THEN Raised
        ELSE Some(sade_sathi_loop(birth_date, sky, moon_sign.value, horizon.value.end_date,
                                  horizon.value.current_date, NoRun))

calculate_sade_sathi_periods(birth_date, sky) ==
    LET run == sade_sathi_run(birth_date, sky)
    IN  IF run = Raised THEN Raised ELSE Some(run.value.periods)

\* --------------------------------------- calculate_ashtama_shani_periods
\* line 240
eighth_house_sign(moon_sign) == ((moon_sign + 6) % 12) + 1

\* lines 243-257
AshtamaPeriod(moon_sign, current_date) ==
    [name |-> "Ashtama Shani",
     start_date |-> current_date,
     end_date |-> current_date + Days(IntDays(25)),
     duration_years |-> 25,
     intensity |-> "Very High",
     moon_sign |-> get_sign_name(moon_sign)]

\* lines 233-262
RECURSIVE ashtama_shani_loop(_, _, _, _, _, _)
ashtama_shani_loop(birth_date, sky, moon_sign, end_date, current_date, run) ==
    IF ~(current_date < end_date /\ run.cycle_count < 4)
    THEN run
    ELSE LET saturn_pos == saturn_position(birth_date, sky, current_date, Len(run.samples))
             hit == /\ IsSome(saturn_pos)
                    /\ saturn_pos.value.sign = eighth_house_sign(moon_sign)
             after ==
                 [periods |-> IF hit
                              THEN Append(run.periods, AshtamaPeriod(moon_sign, current_date))
                              ELSE run.periods,
                  cycle_count |-> IF hit THEN run.cycle_count + 1 ELSE run.cycle_count,
                  samples |-> Append(run.samples, current_date)]
         IN  ashtama_shani_loop(birth_date, sky, moon_sign, end_date,
                                current_date + Days(IntDays(295)), after)

\* lines 214-264, with the sample instants of the loop
ashtama_shani_run(birth_date, sky) ==
    LET moon_sign == get_moon_sign(sky)
        horizon == Horizon100(birth_date)
    IN  IF ~IsSome(moon_sign) THEN Some(NoRun)
        ELSE IF horizon = Raised THEN Raised
        ELSE Some(ashtama_shani_loop(birth_date, sky, moon_sign.value, horizon.value.end_date,
                                     horizon.value.current_date, NoRun))

calculate_ashtama_shani_periods(birth_date, sky) ==
    LET run == ashtama_shani_run(birth_date, sky)
    IN  IF run = Raised THEN Raised ELSE Some(run.value.periods)

\* ------------------------------------------------------ check_kuja_dosha
\* line 285
MarsHouse(mars_sign, ascendant_sign) == ((mars_sign - ascendant_sign) % 12) + 1

\* one severity for every house
SeverityFlat(mars_house) == "Medium"

\* lines 294-302
Severity(mars_house) ==
    IF mars_house \in {1, 8} THEN "High"
    ELSE IF mars_house \in {2, 7, 12} THEN "Medium"
    ELSE "Low"

\* lines 266-322
check_kuja_dosha(sky) ==
    LET mars_pos == get_planet_position("mars", sky.natal)
        sun_pos == get_planet_position("sun", sky.natal)
    IN  IF ~IsSome(mars_pos) THEN None
        ELSE IF ~IsSome(sun_pos) THEN None
        ELSE LET mars_sign == mars_pos.value.sign
                 ascendant_sign == sun_pos.value.sign
                 mars_house == MarsHouse(mars_sign, ascendant_sign)
             IN  IF mars_house \in {1, 2, 4, 7, 8, 12}
                 THEN Some([name |-> "Kuja Dosha (Manglik)",
                            present |-> TRUE,
                            mars_house |-> mars_house,
                            mars_sign |-> get_sign_name(mars_sign),
                            severity |-> Severity(mars_house)])
                 ELSE Some([name |-> "Kuja Dosha (Manglik)",
                            present |-> FALSE,
                            mars_house |-> mars_house,
                            mars_sign |-> get_sign_name(mars_sign)])

\* ------------------------------------------------ check_kala_sarpa_dosha
\* a plain range test
BetweenNodesPlain(rahu_long, ketu_long, longitude) ==
    rahu_long <= longitude /\ longitude <= ketu_long

\* lines 353-358: the test made for one planet
BetweenNodes(rahu_long, ketu_long, longitude) ==
    IF rahu_long < ketu_long
    THEN rahu_long <= longitude /\ longitude <= ketu_long
    ELSE longitude >= rahu_long \/ longitude <= ketu_long

\* lines 324-379
check_kala_sarpa_dosha(sky) ==
    LET planet_positions ==
            { i \in 1..Len(Bodies) : IsSome(get_planet_position(Bodies[i], sky.natal)) }
        rahu_pos == get_planet_position("rahu", sky.natal)
        ketu_pos == get_planet_position("ketu", sky.natal)
    IN  IF ~IsSome(rahu_pos) \/ ~IsSome(ketu_pos) \/ Cardinality(planet_positions) < 7
        THEN None
        ELSE LET rahu_long == rahu_pos.value.longitude
                 ketu_long == ketu_pos.value.longitude
                 planets_between_nodes ==
                     Cardinality({ i \in planet_positions :
                                     BetweenNodes(rahu_long, ketu_long,
                                                  sky.natal[Bodies[i]].longitude) })
                 total_planets == Cardinality(planet_positions)
             IN  IF planets_between_nodes = total_planets
                 THEN Some([name |-> "Kala Sarpa Dosha",
                            present |-> TRUE,
                            intensity |-> "High",
                            rahu_sign |-> rahu_pos.value.sign_name,
                            ketu_sign |-> ketu_pos.value.sign_name])
                 ELSE Some([name |-> "Kala Sarpa Dosha", present |-> FALSE])

\* -------------------------------------- get_complete_afflictions_timeline
\* lines 406-430
get_complete_afflictions_timeline(birth_date, sky) ==
    LET sade_sathi_periods == calculate_sade_sathi_periods(birth_date, sky)
        ashtama_shani_periods == calculate_ashtama_shani_periods(birth_date, sky)
        kuja_dosha == check_kuja_dosha(sky)
        kala_sarpa_dosha == check_kala_sarpa_dosha(sky)
        \* lines 426-427: timeline[...]['present'] if timeline[...] else False
        PresentOrFalse(dosha) == IF IsSome(dosha) THEN dosha.value.present ELSE FALSE
    IN  IF sade_sathi_periods = Raised \/ ashtama_shani_periods = Raised
        THEN Raised
        ELSE Some([birth_date |-> birth_date,
                   sade_sathi_periods |-> sade_sathi_periods.value,
                   ashtama_shani_periods |-> ashtama_shani_periods.value,
                   kuja_dosha |-> kuja_dosha,
                   kala_sarpa_dosha |-> kala_sarpa_dosha,
                   summary |->
                       [total_sade_sathi_periods |-> Len(sade_sathi_periods.value),
                        total_sade_sathi_years |-> Len(sade_sathi_periods.value) * 75,
                        total_ashtama_periods |-> Len(ashtama_shani_periods.value),
                        total_ashtama_years |-> Len(ashtama_shani_periods.value) * 25,
                        lifetime_kuja_dosha |-> PresentOrFalse(kuja_dosha),
                        lifetime_kala_sarpa |-> PresentOrFalse(kala_sarpa_dosha)]])

\* --------------------------- get_current_afflictions, get_upcoming_afflictions
\* lines 440 and 448
IsActive(period, now) == period.start_date <= now /\ now <= period.end_date

\* a period starting now counted as upcoming
IsUpcomingFromNow(period, now, future_date) ==
    now <= period.start_date /\ period.start_date <= future_date

\* lines 464 and 472
IsUpcoming(period, now, future_date) ==
    now < period.start_date /\ period.start_date <= future_date

\* lines 441-442
ActiveNow(period, now) ==
    [field \in DOMAIN period \cup {"status", "remaining_days"} |->
        IF field = "status" THEN "Active Now"
        ELSE IF field = "remaining_days" THEN (period.end_date - now) \div MinutesPerDay
        ELSE period[field]]

\* lines 465-466
Upcoming(period, now) ==
    [field \in DOMAIN period \cup {"status", "days_until_start"} |->
        IF field = "status" THEN "Upcoming"
        ELSE IF field = "days_until_start" THEN (period.start_date - now) \div MinutesPerDay
        ELSE period[field]]

\* the periods of a list that pass a test, in the order of the list
RECURSIVE ActiveOf(_, _)
ActiveOf(periods, now) ==
    IF periods = << >> THEN << >>
    ELSE IF IsActive(Head(periods), now)
         THEN << ActiveNow(Head(periods), now) >> \o ActiveOf(Tail(periods), now)
         ELSE ActiveOf(Tail(periods), now)

RECURSIVE UpcomingOf(_, _, _)
UpcomingOf(periods, now, future_date) ==
    IF periods = << >> THEN << >>
    ELSE IF IsUpcoming(Head(periods), now, future_date)
         THEN << Upcoming(Head(periods), now) >> \o UpcomingOf(Tail(periods), now, future_date)
         ELSE UpcomingOf(Tail(periods), now, future_date)

\* list.sort(key = start_date): stable, by insertion from the right
RECURSIVE InsertByStart(_, _)
InsertByStart(period, sorted) ==
    IF sorted = << >> THEN << period >>
    ELSE IF period.start_date <= Head(sorted).start_date
         THEN << period >> \o sorted
         ELSE << Head(sorted) >> \o InsertByStart(period, Tail(sorted))

RECURSIVE SortByStart(_)
SortByStart(periods) ==
    IF periods = << >> THEN << >>
    ELSE InsertByStart(Head(periods), SortByStart(Tail(periods)))

\* lines 432-453
get_current_afflictions(birth_date, sky, now) ==
    LET sade_sathi_periods == calculate_sade_sathi_periods(birth_date, sky)
        ashtama_periods == calculate_ashtama_shani_periods(birth_date, sky)
    IN  IF sade_sathi_periods = Raised \/ ashtama_periods = Raised
        THEN Raised
        ELSE Some(ActiveOf(sade_sathi_periods.value, now)
                  \o ActiveOf(ashtama_periods.value, now))

\* lines 455-480
get_upcoming_afflictions(birth_date, sky, now, years_ahead) ==
    LET future_date == now + Days(365 * years_ahead)
        sade_sathi_periods == calculate_sade_sathi_periods(birth_date, sky)
        ashtama_periods == calculate_ashtama_shani_periods(birth_date, sky)
    IN  IF sade_sathi_periods = Raised \/ ashtama_periods = Raised
        THEN Raised
        ELSE Some(SortByStart(UpcomingOf(sade_sathi_periods.value, now, future_date)
                              \o UpcomingOf(ashtama_periods.value, now, future_date)))

\* ------------------------------------- components/birth_form.py, the form
\* Python's None; 'not x' is false for a date, a time or a dict that is not
\* None, and for a text that is not empty
Missing == [kind |-> "none"]
Truthy(x) == x # Missing
NonEmpty(text) == text # ""

\* date comparison
DateOrdinal(date) == Ordinal(date.year, date.month, date.day)

\* src/utils/common.py, get_date_range_config
get_date_range_config(now) ==
    [today |-> now, min_date |-> Date(now.year - 100, 1, 1), max_date |-> now]

\* create_time_from_components: datetime.now().replace(hour, minute, ...).time()
create_time_from_components(hour, minute) ==
    [kind |-> "time", hour |-> hour, minute |-> minute]

\* str.strip() on the texts the form is given
Strip(text) == IF text = " " THEN "" ELSE text

\* src/utils/location_utils.py, create_location_data_dict
create_location_data_dict(city, state, country, coordinates) ==
    [city |-> IF NonEmpty(city) THEN Strip(city) ELSE "",
     state |-> IF NonEmpty(state) THEN Strip(state) ELSE "",
     country |-> IF NonEmpty(country) THEN Strip(country) ELSE "",
     coordinates |-> coordinates]

\* src/utils/common.py, validate_birth_inputs
validate_birth_inputs(birth_date, birth_time, location_data, now) ==
    (IF ~Truthy(birth_date) THEN << "Birth date is required" >>
     ELSE IF DateOrdinal(birth_date) > DateOrdinal(now)
          THEN << "Birth date cannot be in the future" >>
          ELSE << >>)
    \o (IF ~Truthy(birth_time) THEN << "Birth time is required" >> ELSE << >>)
    \o (IF ~NonEmpty(location_data.city) THEN << "City is required" >> ELSE << >>)
    \o (IF ~NonEmpty(location_data.country) THEN << "Country is required" >> ELSE << >>)

\* src/utils/location_utils.py, validate_location_data
validate_location_data(location_data) ==
    (IF ~NonEmpty(location_data.city) THEN << "City is required" >> ELSE << >>)
    \o (IF ~NonEmpty(location_data.country) THEN << "Country is required" >> ELSE << >>)

\* errors that stop nothing
render_error_messages_ignored(shown) == FALSE

\* src/utils/common.py, render_error_messages: True when something was shown
render_error_messages(shown) == shown # << >>

\* src/utils/common.py, create_birth_data_dict
create_birth_data_dict(birth_date, birth_time, location_data, hour, minute) ==
    [date |-> birth_date,
     time |-> birth_time,
     hour |-> hour,
     minute |-> minute,
     timestamp |-> Datetime(birth_date.year, birth_date.month, birth_date.day,
                            birth_time.hour * 60 + birth_time.minute),
     location |-> location_data,
     city |-> location_data.city,
     state |-> location_data.state,
     country |-> location_data.country]

\* process_birth_data as a function of what the widgets hold, of the clock
\* and of the geocoder's answer: the errors shown and the session's birth data
ProcessBirthData(session, birth_date, hour, minute, city, state, country, coordinates, now) ==
    LET selected_time == create_time_from_components(hour, minute)
        temp_location_data == create_location_data_dict(city, state, country, Missing)
        shown == validate_birth_inputs(birth_date, selected_time, temp_location_data, now)
                 \o validate_location_data(temp_location_data)
    IN  IF render_error_messages(shown)
        THEN [errors |-> shown, birth_data |-> session]
        ELSE [errors |-> shown,
              birth_data |->
                  create_birth_data_dict(
                      birth_date, selected_time,
                      create_location_data_dict(city, state, country, coordinates),
                      hour, minute)]

\* the day after
NextDay(date) ==
    IF date.day < DaysInMonth(date.year, date.month)
    THEN Date(date.year, date.month, date.day + 1)
    ELSE IF date.month < 12 THEN Date(date.year, date.month + 1, 1)
    ELSE Date(date.year + 1, 1, 1)

\* ------------------------------------------------------------- inputs
BirthSamples == {815}

MoonSamples ==
    { EphemerisError,
      Longitude(0, 0),             \* Ketu, nothing transited
      Longitude(13, 333333332),    \* Ketu, all but transited
      Longitude(13, 333333333),    \* Venus, nothing transited
      Longitude(15, 0),            \* Venus, one eighth transited
      Longitude(30, 0),            \* Sun
      Longitude(46, 0),            \* Moon
      Longitude(60, 500000000),    \* Mars
      Longitude(75, 0),            \* Rahu
      Longitude(85, 0),            \* Jupiter
      Longitude(100, 0),           \* Saturn
      Longitude(110, 0),           \* Mercury
      Longitude(359, 999999990),   \* Mercury, last nakshatra
      Longitude(359, 999999992),   \* above 27 * 13.333333333
      Longitude(359, 999999999) }

AgeJitter == {-1, 0, 1}
AgeSamples == { y * YearTicks + e : y \in 0..MaxAgeYears, e \in AgeJitter }

\* -------------------------------------------------------------- state
VARIABLES
    birth_datetime,      \* datetime.combine(birth_date, birth_time)
    moon,                \* what swe.calc_ut returns for this birth
    current_date,        \* what datetime.now() returns during this request
    pc,                  \* "idle", "page", "current_loop" or "timeline_loop"
    years_to_account,    \* get_current_dasha locals
    current_start,
    start_index,
    advances,            \* loop iterations that moved to the next dasha
    current_dasha,       \* what get_current_dasha returned
    timeline,            \* get_complete_life_dasha_timeline locals
    current_start_date,
    current_index,
    timeline_data,       \* what get_complete_life_dasha_timeline returned
    prev,                \* inputs and outputs of an earlier request
    birth_date,          \* what the Transit Analysis page passes to the calculator
    sky,                 \* what swe.calc_ut answers during that request
    complete_timeline,   \* what get_complete_afflictions_timeline returned
    current_now,         \* datetime.now() in get_current_afflictions
    current_afflictions, \* what get_current_afflictions returned
    upcoming_now,        \* datetime.now() in get_upcoming_afflictions
    years_ahead,         \* the horizon passed to get_upcoming_afflictions
    upcoming_afflictions, \* what get_upcoming_afflictions returned
    today,               \* datetime.now().date()
    session_birth_data,  \* st.session_state['birth_data']
    errors               \* what the last submission of the birth form displayed

inputs == << birth_datetime, moon, current_date >>
currentLocals == << years_to_account, current_start, start_index, advances >>
timelineLocals == << timeline, current_start_date, current_index >>
dashaVars == << inputs, currentLocals, timelineLocals, current_dasha, timeline_data, prev >>
transitVars == << birth_date, sky, complete_timeline, current_now, current_afflictions,
                 upcoming_now, years_ahead, upcoming_afflictions >>
formVars == << today, session_birth_data, errors >>
vars == << birth_datetime, moon, current_date, pc, years_to_account, current_start,
           start_index, advances, current_dasha, timeline, current_start_date,
           current_index, timeline_data, prev, birth_date, sky, complete_timeline,
           current_now, current_afflictions, upcoming_now, years_ahead,
           upcoming_afflictions, today, session_birth_data, errors >>

NoPrev == [state |-> "none"]

\* no request is being served
NoInput == [state |-> "none"]

\* st.session_state.birth_data = {}
NoBirthData == [state |-> "empty"]

\* the day the session starts
FirstDay == Date(2025, 12, 30)

\* a result cached per birth chart: the instant of the previous request is
\* used again when the chart is the same
datetime_now_cached ==
    IF prev # NoPrev /\ prev.birth_datetime = birth_datetime /\ prev.moon = moon
    THEN prev.current_date
    ELSE current_date

\* datetime.now()
datetime_now == current_date

end_of_life_full_cycle == birth_datetime + Timedelta(Years(120))

\* birth_datetime + timedelta(days = 100 * 365.25)
end_of_life == birth_datetime + Timedelta(Years(100))

\* no page is being rendered: the calculator holds no state of its own
Init ==
    /\ birth_datetime = 0
    /\ moon = EphemerisError
    /\ current_date = 0
    /\ pc = "idle"
    /\ years_to_account = RealOfInt(0)
    /\ current_start = 0
    /\ start_index = 1
    /\ advances = 0
    /\ timeline = << >>
    /\ current_start_date = 0
    /\ current_index = 1
    /\ current_dasha = NotCalled
    /\ timeline_data = NotCalled
    /\ prev = NoPrev
    /\ birth_date = NoInput
    /\ sky = NoInput
    /\ complete_timeline = NotCalled
    /\ current_now = 0
    /\ current_afflictions = NotCalled
    /\ upcoming_now = 0
    /\ years_ahead = 0
    /\ upcoming_afflictions = NotCalled
    /\ today = FirstDay
    /\ session_birth_data = NoBirthData
    /\ errors = << >>

\* ----------------------------------------------- steps of the two walks
AccountNothing(years, period_years) == years

\* the period taken off twice
AccountTwice(years, period_years) == RealSub(years, Years(2 * period_years))

\* years_to_account -= period_years
Account(years, period_years) == RealSub(years, Years(period_years))

IsCurrentClosed(start, end, now) == start <= now /\ now <= end

\* start <= current_date < end
IsCurrent(start, end, now) == start <= now /\ now < end

\* end <= current_date
IsPast(end, now) == end <= now

FirstRemainingSinceStart(remaining_at_birth, elapsed_since_start, elapsed_since_birth) ==
    RealSub(remaining_at_birth, elapsed_since_start)

\* remaining = remaining_at_birth - elapsed_since_birth
FirstRemaining(remaining_at_birth, elapsed_since_start, elapsed_since_birth) ==
    RealSub(remaining_at_birth, elapsed_since_birth)

NextStartNextDay(end_date) == end_date + MinutesPerDay

\* current_start_date = end_date
NextStart(end_date) == end_date

\* -------------------------------------------------- get_current_dasha
\* lines 92-128: up to the loop
get_current_dasha ==
    /\ pc = "page"
    /\ current_dasha = NotCalled
    /\ LET dasha_info == calculate_dasha_start_date(birth_datetime, moon)
       IN  IF ~IsSome(dasha_info)
           THEN /\ current_dasha' = None
                /\ UNCHANGED << pc, currentLocals >>
           ELSE LET info == dasha_info.value
                    elapsed_years == DaysAsYears(datetime_now - birth_datetime)
                    current_planet == info.ruling_planet
                    remaining_at_birth == info.remaining_at_birth_years
                IN  IF RealLeq(elapsed_years, remaining_at_birth)
                    THEN LET remaining_years == RealSub(remaining_at_birth, elapsed_years)
                         IN  /\ current_dasha' =
                                  Some([current_planet |-> current_planet,
                                        dasha_start_date |-> info.dasha_start_date,
                                        total_period_years |-> DASHA_PERIODS[current_planet],
                                        elapsed_years |->
                                            RealSub(Years(DASHA_PERIODS[current_planet]),
                                                    remaining_years),
                                        remaining_years |-> remaining_years,
                                        end_date |-> birth_datetime
                                                     + Timedelta(remaining_at_birth)])
                             /\ UNCHANGED << pc, currentLocals >>
                    ELSE /\ years_to_account' = RealSub(elapsed_years, remaining_at_birth)
                         /\ current_start' = birth_datetime + Timedelta(remaining_at_birth)
                         /\ start_index' = NextIndex(SeqIndexOf(current_planet))
                         /\ advances' = 0
                         /\ current_dasha' = Running
                         /\ pc' = "current_loop"
    /\ UNCHANGED << inputs, timelineLocals, timeline_data, prev, transitVars, formVars >>

\* lines 130-151: one pass through the while loop
get_current_dasha_loop ==
    /\ pc = "current_loop"
    /\ IF ~RealLt(RealOfInt(0), years_to_account)
       THEN /\ current_dasha' = None
            /\ pc' = "page"
            /\ UNCHANGED currentLocals
       ELSE LET current_planet == planet_sequence[start_index]
                period_years == DASHA_PERIODS[current_planet]
            IN  IF RealLeq(years_to_account, Years(period_years))
                THEN /\ current_dasha' =
                          Some([current_planet |-> current_planet,
                                dasha_start_date |-> current_start,
                                total_period_years |-> period_years,
                                elapsed_years |-> years_to_account,
                                remaining_years |->
                                    RealSub(Years(period_years), years_to_account),
                                end_date |-> current_start + Timedelta(Years(period_years))])
                     /\ pc' = "page"
                     /\ UNCHANGED currentLocals
                ELSE /\ years_to_account' = Account(years_to_account, period_years)
                     /\ current_start' = current_start + Timedelta(Years(period_years))
                     /\ start_index' = NextIndex(start_index)
                     /\ advances' = advances + 1
                     /\ UNCHANGED << pc, current_dasha >>
    /\ UNCHANGED << inputs, timelineLocals, timeline_data, prev, transitVars, formVars >>

\* ------------------------------------ get_complete_life_dasha_timeline
\* lines 153-204: up to the loop
get_complete_life_dasha_timeline ==
    /\ pc = "page"
    /\ current_dasha.state = "returned"
    /\ timeline_data = NotCalled
    /\ LET dasha_info == calculate_dasha_start_date(birth_datetime, moon)
       IN  IF ~IsSome(dasha_info)
           THEN /\ timeline_data' = None
                /\ UNCHANGED << pc, timelineLocals >>
           ELSE LET info == dasha_info.value
                    now == datetime_now
                    current_planet == info.ruling_planet
                    start == info.dasha_start_date
                    remaining_at_birth == info.remaining_at_birth_years
                    first_end == birth_datetime + Timedelta(remaining_at_birth)
                    is_current == IsCurrent(start, first_end, now)
                    is_past == IsPast(first_end, now)
                    elapsed_since_start == DaysAsYears(now - start)
                    elapsed_since_birth == DaysAsYears(now - birth_datetime)
                IN  /\ timeline' =
                         IF is_current
                         THEN << [planet |-> current_planet,
                                  start_date |-> start,
                                  end_date |-> first_end,
                                  is_current |-> TRUE,
                                  is_past |-> FALSE,
                                  elapsed_years |-> elapsed_since_start,
                                  remaining_years |->
                                      FirstRemaining(remaining_at_birth, elapsed_since_start,
                                                     elapsed_since_birth),
                                  period_years |-> DASHA_PERIODS[current_planet]] >>
                         ELSE << [planet |-> current_planet,
                                  start_date |-> start,
                                  end_date |-> first_end,
                                  is_current |-> FALSE,
                                  is_past |-> is_past,
                                  period_years |-> DASHA_PERIODS[current_planet]] >>
                    /\ current_start_date' = NextStart(first_end)
                    /\ current_index' = SeqIndexOf(current_planet)
                    /\ timeline_data' = Running
                    /\ pc' = "timeline_loop"
    /\ UNCHANGED << inputs, currentLocals, current_dasha, prev, transitVars, formVars >>

\* lines 206-237: one pass through the while loop, or the return
get_complete_life_dasha_timeline_loop ==
    /\ pc = "timeline_loop"
    /\ IF current_start_date < end_of_life
       THEN LET now == datetime_now
                index == NextIndex(current_index)
                planet == planet_sequence[index]
                period_years == DASHA_PERIODS[planet]
                end_date == current_start_date + Timedelta(Years(period_years))
                is_current == IsCurrent(current_start_date, end_date, now)
                is_past == IsPast(end_date, now)
                elapsed_years == DaysAsYears(now - current_start_date)
                period_data == [planet |-> planet,
                                start_date |-> current_start_date,
                                end_date |-> end_date,
                                is_current |-> is_current,
                                is_past |-> is_past,
                                period_years |-> period_years]
            IN  /\ timeline' =
                     Append(timeline,
                            IF is_current
                            THEN [planet |-> planet,
                                  start_date |-> current_start_date,
                                  end_date |-> end_date,
                                  is_current |-> is_current,
                                  is_past |-> is_past,
                                  period_years |-> period_years,
                                  elapsed_years |-> elapsed_years,
                                  remaining_years |->
                                      RealSub(Years(period_years), elapsed_years)]
                            ELSE period_data)
                /\ current_index' = index
                /\ current_start_date' = NextStart(end_date)
                /\ UNCHANGED << pc, timeline_data >>
       ELSE /\ timeline_data' = Some(timeline)
            /\ pc' = "page"
            /\ UNCHANGED timelineLocals
    /\ UNCHANGED << inputs, currentLocals, current_dasha, prev, transitVars, formVars >>

\* -------------------------------------------------------- page requests
\* pages/04_Dasha_Analysis.py, render_dasha_content: the page is rendered for
\* the birth data of the session, at some instant
Request(births, moons, ages) ==
    /\ pc = "idle"
    /\ birth_datetime' \in births
    /\ moon' \in moons
    /\ \E age \in ages : current_date' = birth_datetime' + age
    /\ pc' = "page"
    /\ UNCHANGED << currentLocals, timelineLocals, current_dasha, timeline_data, prev,
                    transitVars, formVars >>

\* both results have been rendered; nothing of the request is kept
Rendered(remembered) ==
    /\ pc = "page"
    /\ current_dasha.state = "returned"
    /\ timeline_data.state = "returned"
    /\ birth_datetime' = 0
    /\ moon' = EphemerisError
    /\ current_date' = 0
    /\ pc' = "idle"
    /\ years_to_account' = RealOfInt(0)
    /\ current_start' = 0
    /\ start_index' = 1
    /\ advances' = 0
    /\ timeline' = << >>
    /\ current_start_date' = 0
    /\ current_index' = 1
    /\ current_dasha' = NotCalled
    /\ timeline_data' = NotCalled
    /\ prev' = remembered
    /\ UNCHANGED << transitVars, formVars >>

render_dasha_content == Request(BirthSamples, MoonSamples, AgeSamples)

render_dasha_content_done == Rendered(prev)

Next ==
    \/ render_dasha_content
    \/ get_current_dasha
    \/ get_current_dasha_loop
    \/ get_complete_life_dasha_timeline
    \/ get_complete_life_dasha_timeline_loop
    \/ render_dasha_content_done

Spec == Init /\ [][Next]_vars

\* ---------------------------------------------- the same page, rendered twice
\* Each rendering leaves its inputs and outputs behind for comparison with
\* the next one; the inputs are few, so that they recur.
AgainBirths == {0, 815}
AgainMoons == { EphemerisError, Longitude(0, 0), Longitude(15, 0), Longitude(359, 999999992) }
AgainAges == { 0, 7 * YearTicks - 1, 7 * YearTicks, 40 * YearTicks, 101 * YearTicks }

render_dasha_content_again == Request(AgainBirths, AgainMoons, AgainAges)

render_dasha_content_compared ==
    Rendered([state |-> "some",
              birth_datetime |-> birth_datetime,
              moon |-> moon,
              current_date |-> current_date,
              current_dasha |-> current_dasha,
              timeline_data |-> timeline_data])

NextAgain ==
    \/ render_dasha_content_again
    \/ get_current_dasha
    \/ get_current_dasha_loop
    \/ get_complete_life_dasha_timeline
    \/ get_complete_life_dasha_timeline_loop
    \/ render_dasha_content_compared

SpecAgain == Init /\ [][NextAgain]_vars

\* ------------------------- the same page, the Moon at the seam of the circle
\* A longitude of exactly 360.0 handed to the resolver, next to 0.0.
render_dasha_content_at_seam ==
    Request(BirthSamples, { Longitude(0, 0), Longitude(360, 0) }, AgeSamples)

NextSeam ==
    \/ render_dasha_content_at_seam
    \/ get_current_dasha
    \/ get_current_dasha_loop
    \/ get_complete_life_dasha_timeline
    \/ get_complete_life_dasha_timeline_loop
    \/ render_dasha_content_done

SpecSeam == Init /\ [][NextSeam]_vars

\* ------------------------------ pages/05_Transit_Analysis.py, render_transit_content
\* The page is rendered for a birth date; the three calls of lines 296-302
\* follow, and an exception of any of them ends in the handler of line 450.
Visit(births, skies) ==
    /\ pc = "idle"
    /\ birth_date' \in births
    /\ sky' \in skies
    /\ pc' = "transit"
    /\ UNCHANGED << complete_timeline, current_now, current_afflictions, upcoming_now,
                    years_ahead, upcoming_afflictions, dashaVars, formVars >>

\* line 296
render_transit_content_timeline ==
    /\ pc = "transit"
    /\ complete_timeline = NotCalled
    /\ complete_timeline' = get_complete_afflictions_timeline(birth_date, sky)
    /\ pc' = IF complete_timeline' = Raised THEN "transit_except" ELSE "transit"
    /\ UNCHANGED << birth_date, sky, current_now, current_afflictions, upcoming_now,
                    years_ahead, upcoming_afflictions, dashaVars, formVars >>

\* line 299; datetime.now() is read inside the call
CurrentAt(nows) ==
    /\ pc = "transit"
    /\ complete_timeline.state = "returned"
    /\ current_afflictions = NotCalled
    /\ current_now' \in nows
    /\ current_afflictions' = get_current_afflictions(birth_date, sky, current_now')
    /\ pc' = IF current_afflictions' = Raised THEN "transit_except" ELSE "transit"
    /\ UNCHANGED << birth_date, sky, complete_timeline, upcoming_now, years_ahead,
                    upcoming_afflictions, dashaVars, formVars >>

\* line 302; datetime.now() is read again, no earlier than before
UpcomingAt(laters, horizons) ==
    /\ pc = "transit"
    /\ current_afflictions.state = "returned"
    /\ upcoming_afflictions = NotCalled
    /\ \E later \in laters : upcoming_now' = current_now + later
    /\ years_ahead' \in horizons
    /\ upcoming_afflictions' =
           get_upcoming_afflictions(birth_date, sky, upcoming_now', years_ahead')
    /\ pc' = IF upcoming_afflictions' = Raised THEN "transit_except" ELSE "transit"
    /\ UNCHANGED << birth_date, sky, complete_timeline, current_now, current_afflictions,
                    dashaVars, formVars >>

\* lines 304-451: everything is displayed, or the error is; nothing is kept
render_transit_content_done ==
    /\ \/ pc = "transit" /\ upcoming_afflictions.state = "returned"
       \/ pc = "transit_except"
    /\ pc' = "idle"
    /\ birth_date' = NoInput
    /\ sky' = NoInput
    /\ complete_timeline' = NotCalled
    /\ current_now' = 0
    /\ current_afflictions' = NotCalled
    /\ upcoming_now' = 0
    /\ years_ahead' = 0
    /\ upcoming_afflictions' = NotCalled
    /\ UNCHANGED << dashaVars, formVars >>

\* ---------------------------------------------- the charts of the page
TransitBirths == { Date(1990, 5, 15), DateAndTime(1990, 5, 15, 13, 35), Date(2000, 2, 29) }

NatalBase ==
    [planet \in Queried |->
        CASE planet = "sun" -> Position(40)
          [] planet = "moon" -> Position(125)
          [] planet = "mars" -> Position(200)
          [] planet = "mercury" -> Position(50)
          [] planet = "jupiter" -> Position(250)
          [] planet = "venus" -> Position(20)
          [] planet = "saturn" -> Position(100)
          [] planet = "rahu" -> Position(10)]

\* the Moon in Leo, Aquarius or Pisces, and Saturn at each sample in Cancer,
\* Aquarius or Pisces, or unavailable; and the Moon unavailable
TransitSkies ==
    { [natal |-> [NatalBase EXCEPT !["moon"] = m], transit |-> t] :
          m \in { Position(125), Position(320), Position(345) },
          t \in [0..3 -> { EphemerisError, Position(100), Position(315), Position(345) }] }
    \cup { [natal |-> [NatalBase EXCEPT !["moon"] = EphemerisError],
            transit |-> [k \in 0..3 |-> EphemerisError]] }

\* instants around the first period: the ends of the five-year window before
\* it, its start, and the ends of a 2.5-year and of a 7.5-year period
NowSamples ==
    { FirstSample(birth_date) + offset :
          offset \in { 0 - Days(365 * 5) - 1, 0 - Days(365 * 5), 0 - 1, 0,
                       Days(IntDays(25)), Days(IntDays(25)) + 1,
                       Days(IntDays(75)), Days(IntDays(75)) + 1 } }

render_transit_content == Visit(TransitBirths, TransitSkies)

get_current_afflictions_now == CurrentAt(NowSamples)

get_upcoming_afflictions_now == UpcomingAt({0, 1}, {5, 60})

NextTransit ==
    \/ render_transit_content
    \/ render_transit_content_timeline
    \/ get_current_afflictions_now
    \/ get_upcoming_afflictions_now
    \/ render_transit_content_done

SpecTransit == Init /\ [][NextTransit]_vars

\* --------------------------------------- the natal charts of the two doshas
SaturnInCancer == [k \in 0..3 |-> Position(100)]

\* Mars and the Sun in every pair of signs, and each of them unavailable
KujaSkies ==
    LET SignSamples ==
            { Position(30 * (sign - 1) + 7) : sign \in 1..12 } \cup { EphemerisError }
    IN  { [natal |-> [NatalBase EXCEPT !["mars"] = mars, !["sun"] = sun],
           transit |-> SaturnInCancer] : mars \in SignSamples, sun \in SignSamples }

\* the bodies clustered after Rahu (side = 0) or after Ketu (side = 180), one
\* of them moved to rahu + offset
NodeChart(rahu, cluster, side, outlier, offset) ==
    [planet \in Queried |->
        IF planet = "rahu" THEN Position(rahu)
        ELSE LET i == CHOOSE k \in 1..Len(Bodies) : Bodies[k] = planet
             IN  IF i = outlier
                 THEN Position((rahu + offset) % 360)
                 ELSE Position((rahu + side + cluster[i]) % 360)]

\* the seven bodies as offsets from a node: spread over the half circle,
\* within 20 degrees of the node, or 20 to 60 degrees from it; the one body
\* that leaves the cluster anywhere around the circle
NodeCharts ==
    { NodeChart(rahu, cluster, side, outlier, offset) :
          rahu \in { 0, 10, 100, 179, 180, 350 },
          cluster \in { << 5, 30, 60, 90, 120, 150, 175 >>,
                        << 2, 5, 8, 11, 14, 17, 19 >>,
                        << 20, 25, 30, 35, 40, 50, 60 >> },
          side \in {0, 180},
          outlier \in 1..Len(Bodies),
          offset \in { 0, 1, 20, 90, 179, 180, 181, 270, 359 } }

\* the charts of both doshas, and a chart with one of its eight answers missing
DoshaSkies ==
    KujaSkies
    \cup { [natal |-> natal, transit |-> SaturnInCancer] :
              natal \in NodeCharts
                        \cup { [NodeChart(100, << 20, 25, 30, 35, 40, 50, 60 >>, 0, 1, 20)
                                   EXCEPT ![planet] = EphemerisError] : planet \in Queried } }

render_transit_content_of_chart == Visit({ Date(1990, 5, 15) }, DoshaSkies)

get_current_afflictions_at_birth == CurrentAt({ FirstSample(birth_date) })

get_upcoming_afflictions_at_birth == UpcomingAt({0}, {5})

NextDoshas ==
    \/ render_transit_content_of_chart
    \/ render_transit_content_timeline
    \/ get_current_afflictions_at_birth
    \/ get_upcoming_afflictions_at_birth
    \/ render_transit_content_done

SpecDoshas == Init /\ [][NextDoshas]_vars

\* ------------------------------------------- the form, submitted
\* how many midnights pass
MaxDays == 2

\* what st.date_input lets through: a date from min_value to max_value
DateChoices(config) ==
    { date \in { config.min_date, Date(1990, 5, 15), Date(2000, 2, 29),
                 config.today } :
          /\ DateOrdinal(config.min_date) <= DateOrdinal(date)
          /\ DateOrdinal(date) <= DateOrdinal(config.max_date) }

\* an answer of the geocoder
Pune == [latitude |-> 18, longitude |-> 73]

\* either button of the form: lines 69-99
process_birth_data ==
    /\ pc = "idle"
    /\ \E date_input \in DateChoices(get_date_range_config(today)),
          birth_hour \in { 0, 13 }, birth_minute \in { 0, 35 },
          city \in { "", " ", "Pune" }, country \in { "", "India" },
          coordinates \in { Missing, Pune } :
          LET done == ProcessBirthData(session_birth_data, date_input, birth_hour,
                                       birth_minute, city, "", country, coordinates, today)
          IN  /\ errors' = done.errors
              /\ session_birth_data' = done.birth_data
    /\ UNCHANGED << today, pc, dashaVars, transitVars >>

\* the clock passes midnight between two runs of the script
midnight ==
    /\ pc = "idle"
    /\ DateOrdinal(today) < DateOrdinal(FirstDay) + MaxDays
    /\ today' = NextDay(today)
    /\ UNCHANGED << session_birth_data, errors, pc, dashaVars, transitVars >>

\* src/utils/page_utils.py, check_birth_data_and_render: a page calls its
\* content only with birth data in the session, and the content takes its
\* inputs from there
\* pages/05_Transit_Analysis.py, lines 266-294
render_transit_content_of_session ==
    /\ session_birth_data # NoBirthData
    /\ Truthy(session_birth_data.date)
    /\ Visit({ session_birth_data.date },
             { [natal |-> NatalBase, transit |-> t] :
                   t \in { SaturnInCancer, [k \in 0..3 |-> Position(30 * k + 105)] } })

\* pages/04_Dasha_Analysis.py: the instant of birth counted from the
\* midnight before it
render_dasha_content_of_session ==
    /\ session_birth_data # NoBirthData
    /\ Truthy(session_birth_data.date)
    /\ Truthy(session_birth_data.time)
    /\ Request({ session_birth_data.time.hour * 60 + session_birth_data.time.minute },
               { Longitude(15, 0) }, { 40 * YearTicks })

NextForm ==
    \/ process_birth_data
    \/ midnight
    \/ render_transit_content_of_session
    \/ render_transit_content_timeline
    \/ get_current_afflictions_at_birth
    \/ get_upcoming_afflictions_at_birth
    \/ render_transit_content_done
    \/ render_dasha_content_of_session
    \/ get_current_dasha
    \/ get_current_dasha_loop
    \/ get_complete_life_dasha_timeline
    \/ get_complete_life_dasha_timeline_loop
    \/ render_dasha_content_done

SpecForm == Init /\ [][NextForm]_vars

\* =================================================================== claims
Age == current_date - birth_datetime
Horizon == birth_datetime + 100 * YearTicks
OneDay == RealOfInt(MinutesPerDay)
RealAbs(a) == IF a.t < 0 THEN RealNeg(a) ELSE a
WithinOneDay(a, b) == RealLt(RealAbs(RealSub(a, b)), OneDay)
Entries == timeline_data.value
Last(tl) == tl[Len(tl)]
InRequest == pc # "idle"

\* C1: in every returned timeline each entry ends exactly where the next one
\* starts: no gap and no overlap between consecutive Dasha periods.
C1_Contiguous ==
    IsSome(timeline_data) =>
        \A i \in 1..(Len(Entries) - 1) : Entries[i].end_date = Entries[i + 1].start_date

C1_Witness == IsSome(timeline_data) /\ Len(Entries) >= 9

\* C2: against the evaluation instant every entry is exactly one of Past
\* (end <= now), Current (start <= now < end) or Future; at most one entry is
\* Current, Past entries come first and Future entries last; and when now is a
\* boundary p[i].end = p[i+1].start, p[i] is Past and p[i+1] is Current.
IsFuture(e) == ~e.is_current /\ ~e.is_past

C2_Classified ==
    IsSome(timeline_data) =>
        /\ \A i \in 1..Len(Entries) :
              /\ Entries[i].is_past = (Entries[i].end_date <= current_date)
              /\ Entries[i].is_current = (Entries[i].start_date <= current_date
                                          /\ current_date < Entries[i].end_date)
              /\ ~(Entries[i].is_past /\ Entries[i].is_current)
        /\ Cardinality({i \in 1..Len(Entries) : Entries[i].is_current}) <= 1
        /\ \A i, j \in 1..Len(Entries) :
              i < j => /\ Entries[j].is_past => Entries[i].is_past
                       /\ Entries[j].is_current => Entries[i].is_past
                       /\ IsFuture(Entries[i]) => IsFuture(Entries[j])
        /\ \A i \in 1..(Len(Entries) - 1) :
              current_date = Entries[i].end_date =>
                  Entries[i].is_past /\ Entries[i + 1].is_current

C2_Witness ==
    /\ IsSome(timeline_data)
    /\ \E i \in 2..(Len(Entries) - 1) :
          /\ current_date = Entries[i].end_date
          /\ Entries[i].is_past
          /\ Entries[i + 1].is_current

\* C3: for the period reported as current, elapsed_years + remaining_years is
\* the period's full length to within one day, in what get_current_dasha
\* returns (either branch) and in the is_current entry of the timeline (first
\* entry or a later one).
C3_ElapsedPlusRemaining ==
    /\ IsSome(current_dasha) =>
          WithinOneDay(RealAdd(current_dasha.value.elapsed_years,
                               current_dasha.value.remaining_years),
                       Years(current_dasha.value.total_period_years))
    /\ IsSome(timeline_data) =>
          \A i \in 1..Len(Entries) :
              Entries[i].is_current =>
                  WithinOneDay(RealAdd(Entries[i].elapsed_years, Entries[i].remaining_years),
                               Years(Entries[i].period_years))

\* the birth period is current and its two day counts do not add up exactly
C3_Witness ==
    /\ IsSome(current_dasha)
    /\ IsSome(timeline_data)
    /\ Entries[1].is_current
    /\ RealAdd(Entries[1].elapsed_years, Entries[1].remaining_years)
           # Years(Entries[1].period_years)

\* C4: every Moon longitude in [0, 360) resolves to one nakshatra number in
\* 1..27, a degree into the segment below the segment width, and the lord the
\* 27-entry table has at that number.
C4_EveryLongitudeResolves ==
    (InRequest /\ moon.ok) =>
        LET nakshatra_data == calculate_moon_nakshatra(moon)
        IN  /\ IsSome(nakshatra_data)
            /\ nakshatra_data.value.nakshatra_number \in 1..27
            /\ DecLt(nakshatra_data.value.nakshatra_degree, NakshatraWidth)
            /\ nakshatra_data.value.nakshatra_lord
                   = NAKSHATRA_LORDS[nakshatra_data.value.nakshatra_number]

C6_EndsAtHorizon ==
    IsSome(timeline_data) => Last(Entries).end_date = Horizon

\* C6 (amended): the timeline reaches the horizon and its last entry is kept
\* whole: that entry starts before birth + 100 * 365.25 days and ends at or
\* after it, a full period after its start; the first entry starts at or
\* before birth.
C6_ReachesHorizon ==
    IsSome(timeline_data) =>
        /\ Last(Entries).start_date < Horizon
        /\ Horizon <= Last(Entries).end_date
        /\ Last(Entries).end_date
               = Last(Entries).start_date + Last(Entries).period_years * YearTicks
        /\ Entries[1].start_date <= birth_datetime

C6_Witness ==
    /\ IsSome(timeline_data)
    /\ Last(Entries).end_date > Horizon + 10 * YearTicks

\* C7: when nakshatra resolution fails, get_current_dasha and
\* get_complete_life_dasha_timeline hand the caller a structured
\* DashaComputationError, never a null result.
DashaComputationError ==
    [state |-> "returned", none |-> FALSE, error |-> "DashaComputationError"]

C7_StructuredFailure ==
    (InRequest /\ ~IsSome(calculate_moon_nakshatra(moon))) =>
        /\ current_dasha.state = "returned" => current_dasha = DashaComputationError
        /\ timeline_data.state = "returned" => timeline_data = DashaComputationError

\* C8: the advance loop of get_current_dasha ends: it runs only while
\* years_to_account is positive, every advance accounts for at least the
\* shortest period (6 years) of the time elapsed since birth, and for an
\* instant within 120 years after birth it advances at most 18 times.
ShortestPeriod == CHOOSE y \in {DASHA_PERIODS[p] : p \in Planets} :
                      \A p \in Planets : y <= DASHA_PERIODS[p]

C8_BoundedWalk ==
    (pc = "current_loop" \/ (InRequest /\ current_dasha.state = "returned")) =>
        /\ pc = "current_loop" => RealLt(RealOfInt(0), years_to_account)
        /\ advances > 0 => advances * ShortestPeriod * YearTicks < Age
        /\ (0 <= Age /\ Age <= 120 * YearTicks) => advances <= 18

C8_Witness ==
    /\ InRequest
    /\ IsSome(current_dasha)
    /\ Age <= 120 * YearTicks
    /\ advances >= 8

\* C9: the planet of each period is the successor of the previous period's
\* planet in the cycle Ketu, Venus, Sun, Moon, Mars, Rahu, Jupiter, Saturn,
\* Mercury (Mercury wraps to Ketu), in the timeline and in get_current_dasha's
\* walk; the nakshatra-lord table runs in the same cyclic order; nine advances
\* lead back to the same body.
VimshottariOrder ==
    << "Ketu", "Venus", "Sun", "Moon", "Mars", "Rahu", "Jupiter", "Saturn", "Mercury" >>

Successor(p) ==
    LET i == CHOOSE k \in 1..9 : VimshottariOrder[k] = p
    IN  VimshottariOrder[(i % 9) + 1]

RECURSIVE SuccessorN(_, _)
SuccessorN(p, n) == IF n = 0 THEN p ELSE SuccessorN(Successor(p), n - 1)

RECURSIVE NextIndexN(_, _)
NextIndexN(i, n) == IF n = 0 THEN i ELSE NextIndexN(NextIndex(i), n - 1)

C9_CyclicOrder ==
    LET nakshatra_data == calculate_moon_nakshatra(moon)
        lord == nakshatra_data.value.nakshatra_lord
        first_end == birth_datetime
                     + Timedelta(calculate_dasha_start_date(birth_datetime, moon)
                                     .value.remaining_at_birth_years)
    IN  /\ IsSome(timeline_data) =>
              /\ Entries[1].planet = lord
              /\ \A i \in 1..(Len(Entries) - 1) :
                    Entries[i + 1].planet = Successor(Entries[i].planet)
        /\ pc = "current_loop" =>
              planet_sequence[start_index] = SuccessorN(lord, advances + 1)
        /\ (pc = "page" /\ IsSome(current_dasha)) =>
              current_dasha.value.current_planet
                  = IF current_dasha.value.end_date = first_end
                    THEN lord
                    ELSE SuccessorN(lord, advances + 1)
        /\ pc = "idle" =>
              /\ \A i \in 1..(Len(NAKSHATRA_LORDS) - 1) :
                    NAKSHATRA_LORDS[i + 1] = Successor(NAKSHATRA_LORDS[i])
              /\ \A i \in 1..Len(planet_sequence) :
                    /\ planet_sequence[NextIndex(i)] = Successor(planet_sequence[i])
                    /\ NextIndexN(i, 9) = i

C9_Witness ==
    /\ IsSome(timeline_data)
    /\ IsSome(current_dasha)
    /\ advances >= 2
    /\ \E i, j \in 1..(Len(Entries) - 1) :
          /\ Entries[i].planet = "Mercury" /\ Entries[i + 1].planet = "Ketu"
          /\ Entries[j].planet = "Venus" /\ Entries[j + 1].planet = "Sun"

\* C10: a rendering with the same birth instant, the same ephemeris result
\* and the same evaluation instant as the rendering before it returns the same
\* current dasha and the same timeline: nothing of an earlier call is used.
SameInputsAsBefore ==
    /\ pc = "page"
    /\ prev # NoPrev
    /\ prev.birth_datetime = birth_datetime
    /\ prev.moon = moon
    /\ prev.current_date = current_date

SadeSathi == complete_timeline.value.sade_sathi_periods
Ashtama == complete_timeline.value.ashtama_shani_periods
Summary == complete_timeline.value.summary

\* C11 (as stated): the Sade Sathi periods returned come cycle by cycle as
\* three consecutive intervals, Rising then Peak then Setting, each lasting
\* 2.5 years (int(2.5 * 365.25) days), the three together the 7.5 years of
\* the cycle.
C11_PhasesInOrder ==
    IsSome(complete_timeline) =>
        /\ Len(SadeSathi) % 3 = 0
        /\ \A c \in 0..((Len(SadeSathi) \div 3) - 1) :
              LET rising == SadeSathi[3 * c + 1]
                  peak == SadeSathi[3 * c + 2]
                  setting == SadeSathi[3 * c + 3]
              IN  /\ rising.phase = "Rising (Arohini)"
                  /\ peak.phase = "Peak (Madhya)"
                  /\ setting.phase = "Setting (Avarohi)"
                  /\ rising.end_date = peak.start_date
                  /\ peak.end_date = setting.start_date
                  /\ \A part \in {rising, peak, setting} :
                        part.end_date - part.start_date = Days(IntDays(25))
                  /\ setting.end_date - rising.start_date = Days(IntDays(75))

\* C12 (as stated): whatever the birth date, the lifetime timeline holds
\* exactly 4 Sade Sathi periods and its summary counts 4.
C12_FourSadeSathiPeriods ==
    IsSome(complete_timeline) =>
        /\ Len(SadeSathi) = 4
        /\ Summary.total_sade_sathi_periods = 4

\* C13: calculate_sade_sathi_periods and calculate_ashtama_shani_periods end
\* for every birth input and return at most 4 periods: a call that reaches
\* its sampling loop runs the body at most 4 times, counts at most 4 periods,
\* takes every sample before the end date 100 years after birth, and moves
\* the sample instant forward by int(29.5 * 365.25) days on every iteration,
\* also when Saturn's position is unavailable or not in a target sign.
InTransit == pc \in {"transit", "transit_except"}

BoundedRun(run) ==
    /\ Len(run.periods) <= 4
    /\ run.cycle_count <= 4
    /\ run.cycle_count = Len(run.periods)
    /\ Len(run.periods) <= Len(run.samples)
    /\ Len(run.samples) <= 4
    /\ \A i \in 1..Len(run.samples) :
          /\ run.samples[i] >= FirstSample(birth_date)
          /\ run.samples[i] < FirstSample(birth_date) + Days(36525)
    /\ \A i \in 1..(Len(run.samples) - 1) :
          /\ run.samples[i] < run.samples[i + 1]
          /\ run.samples[i + 1] = run.samples[i] + Days(IntDays(295))

SignBefore(m) == IF m = 1 THEN 12 ELSE m - 1
SignAfter(m) == IF m = 12 THEN 1 ELSE m + 1
SignNumber(sign_name) == CHOOSE n \in 1..12 : get_sign_name(n) = sign_name
TargetsOf(m) == { SignBefore(m), m, SignAfter(m) }

\* what Saturn's sign was at the instant a recorded period starts
SaturnSignAt(start_date) ==
    LET run == sade_sathi_run(birth_date, sky).value
        k == CHOOSE i \in 1..Len(run.samples) : run.samples[i] = start_date
    IN  saturn_position(birth_date, sky, start_date, k - 1)

C14_TargetSigns ==
    /\ \A m \in 1..12 :
          /\ houses_from_moon(m) = << SignBefore(m), m, SignAfter(m) >>
          /\ \A i \in 1..3 : houses_from_moon(m)[i] \in 1..12
    /\ houses_from_moon(SignNumber("Cancer"))
           = << SignNumber("Gemini"), SignNumber("Cancer"), SignNumber("Leo") >>
    /\ houses_from_moon(SignNumber("Aries"))
           = << SignNumber("Pisces"), SignNumber("Aries"), SignNumber("Taurus") >>
    /\ IsSome(complete_timeline) =>
          LET run == sade_sathi_run(birth_date, sky).value
              moon_sign == get_moon_sign(sky)
          IN  /\ SadeSathi = run.periods
              /\ \A i \in 1..Len(SadeSathi) :
                    /\ IsSome(moon_sign)
                    /\ \E k \in 1..Len(run.samples) : run.samples[k] = SadeSathi[i].start_date
                    /\ IsSome(SaturnSignAt(SadeSathi[i].start_date))
                    /\ SaturnSignAt(SadeSathi[i].start_date).value.sign
                           \in TargetsOf(moon_sign.value)
              /\ \A k \in 1..Len(run.samples) :
                    LET saturn_pos == saturn_position(birth_date, sky, run.samples[k], k - 1)
                    IN  (~IsSome(saturn_pos)
                         \/ saturn_pos.value.sign \notin TargetsOf(moon_sign.value))
                            => \A i \in 1..Len(SadeSathi) :
                                   SadeSathi[i].start_date # run.samples[k]

\* Moon in Pisces: Saturn in Aquarius or Pisces is recorded, Saturn in Cancer
\* at another sample is not
C14_Witness ==
    /\ pc = "transit"
    /\ IsSome(complete_timeline)
    /\ get_moon_sign(sky) = Some(SignNumber("Pisces"))
    /\ Len(SadeSathi) = 2
    /\ SaturnSignAt(SadeSathi[1].start_date).value.sign = SignNumber("Aquarius")
    /\ SaturnSignAt(SadeSathi[2].start_date).value.sign = SignNumber("Pisces")
    /\ \E k \in 0..3 : sky.transit[k] = Position(100)

\* ------------------------------------------------- claims on the doshas
KujaDosha == complete_timeline.value.kuja_dosha
KalaSarpaDosha == complete_timeline.value.kala_sarpa_dosha
Natal(planet) == sky.natal[planet]
SignOfLongitude(longitude) == (longitude \div 30) + 1

\* the house counted from the ascendant sign, the ascendant sign being house 1
HouseFrom(ascendant_sign, sign) ==
    CHOOSE h \in 1..12 : (ascendant_sign + h - 1 - sign) % 12 = 0

\* C15: for every Mars sign and every Sun sign (the proxy ascendant) in 1..12,
\* check_kuja_dosha reports mars_house = ((mars_sign - ascendant_sign) mod 12)
\* + 1, a house in 1..12; present exactly when that house is one of 1, 2, 4,
\* 7, 8, 12; severity High in houses 1 and 8, Medium in 2, 7 and 12, Low in
\* house 4; and a severity only when the dosha is present.
C15_KujaDosha ==
    (IsSome(complete_timeline) /\ Natal("mars").ok /\ Natal("sun").ok) =>
        LET mars_sign == SignOfLongitude(Natal("mars").longitude)
            ascendant_sign == SignOfLongitude(Natal("sun").longitude)
            house == HouseFrom(ascendant_sign, mars_sign)
        IN  /\ IsSome(KujaDosha)
            /\ KujaDosha.value.mars_house = house
            /\ KujaDosha.value.mars_house \in 1..12
            /\ KujaDosha.value.present = (house \in {1, 2, 4, 7, 8, 12})
            /\ ("severity" \in DOMAIN KujaDosha.value) = KujaDosha.value.present
            /\ KujaDosha.value.present =>
                  /\ house \in {1, 8} => KujaDosha.value.severity = "High"
                  /\ house \in {2, 7, 12} => KujaDosha.value.severity = "Medium"
                  /\ house = 4 => KujaDosha.value.severity = "Low"
            /\ Summary.lifetime_kuja_dosha = KujaDosha.value.present

\* Mars in a sign before the Sun's, in the eighth house from it
C15_Witness ==
    /\ pc = "transit"
    /\ IsSome(complete_timeline)
    /\ IsSome(KujaDosha)
    /\ Natal("mars").longitude < Natal("sun").longitude
    /\ KujaDosha.value.present
    /\ KujaDosha.value.mars_house = 8
    /\ KujaDosha.value.severity = "High"

\* C16: check_kala_sarpa_dosha reports present exactly when each of the
\* seven bodies lies on the arc that runs from Rahu in increasing longitude
\* to Ketu = (Rahu + 180) mod 360, that is (longitude - Rahu) mod 360 is in
\* [0, 180], whether or not the arc crosses 0/360 degrees: Rahu 350 with the
\* bodies in [350, 360) and [0, 10) is detected, and so is Rahu 100 with the
\* bodies 20 to 60 degrees after it.
AllAnswered == \A planet \in Queried : Natal(planet).ok

OnArcFrom(node, longitude) == (longitude - node) % 360 \in 0..180

Example350 == NodeChart(350, << 2, 5, 8, 11, 14, 17, 19 >>, 0, 1, 1)
Example100 == NodeChart(100, << 20, 25, 30, 35, 40, 50, 60 >>, 0, 1, 20)

C16_KalaSarpaArc ==
    /\ (IsSome(complete_timeline) /\ AllAnswered) =>
          /\ IsSome(KalaSarpaDosha)
          /\ KalaSarpaDosha.value.present
                 = \A i \in 1..Len(Bodies) :
                       OnArcFrom(Natal("rahu").longitude, Natal(Bodies[i]).longitude)
          /\ Summary.lifetime_kala_sarpa = KalaSarpaDosha.value.present
    /\ pc = "idle" =>
          \A natal \in { Example350, Example100 } :
              /\ get_planet_position("ketu", natal).value.longitude
                     = (natal["rahu"].longitude + 180) % 360
              /\ check_kala_sarpa_dosha([natal |-> natal, transit |-> SaturnInCancer])
                     .value.present

\* Rahu at 350, Ketu at 170, bodies on both sides of 0 degrees: detected
C16_Witness ==
    /\ pc = "transit"
    /\ IsSome(complete_timeline)
    /\ sky.natal = Example350
    /\ \E i, j \in 1..Len(Bodies) :
          /\ Natal(Bodies[i]).longitude >= 350
          /\ Natal(Bodies[j]).longitude < 10
    /\ KalaSarpaDosha.value.present

\* C17 (as stated): Kala Sarpa Dosha is reported present whenever all seven
\* bodies lie within one of the two arcs bounded by the nodes, the arc from
\* Rahu to Ketu or the arc from Ketu to Rahu.
C17_EitherArc ==
    (IsSome(complete_timeline) /\ AllAnswered) =>
        LET rahu_long == Natal("rahu").longitude
            ketu_long == (rahu_long + 180) % 360
        IN  (\/ \A i \in 1..Len(Bodies) : OnArcFrom(rahu_long, Natal(Bodies[i]).longitude)
             \/ \A i \in 1..Len(Bodies) : OnArcFrom(ketu_long, Natal(Bodies[i]).longitude))
                => /\ IsSome(KalaSarpaDosha)
                   /\ KalaSarpaDosha.value.present

\* C18 (as stated): when an ephemeris query of an affliction computation
\* fails (the Moon sign, a Saturn sample, Mars, the Sun, a node or one of the
\* seven bodies), the computation fails towards its caller:
\* get_complete_afflictions_timeline returns no result in which the failed
\* query shows as an empty or shortened period list or as an absent dosha.
SaturnSampleFailed ==
    \E run \in { sade_sathi_run(birth_date, sky), ashtama_shani_run(birth_date, sky) } :
        /\ IsSome(run)
        /\ \E k \in 1..Len(run.value.samples) :
              ~IsSome(saturn_position(birth_date, sky, run.value.samples[k], k - 1))

SomeQueryFailed ==
    \/ \E planet \in Queried : ~Natal(planet).ok
    \/ SaturnSampleFailed

C18_FailurePropagated ==
    (InTransit /\ complete_timeline # NotCalled /\ SomeQueryFailed)
        => ~IsSome(complete_timeline)

\* --------------------------------------------------- claims on the form
Saved == session_birth_data # NoBirthData
InDasha == pc \in {"page", "current_loop", "timeline_loop"}
Shows(shown, message) == \E i \in 1..Len(shown) : shown[i] = message
PuneIndia == create_location_data_dict("Pune", "", "India", Missing)

\* the birth data of the session passes validation, and the pages compute
\* with nothing else
SessionValidated ==
    /\ Saved =>
          /\ Truthy(session_birth_data.date)
          /\ Truthy(session_birth_data.time)
          /\ DateOrdinal(session_birth_data.date) <= DateOrdinal(today)
          /\ validate_birth_inputs(session_birth_data.date, session_birth_data.time,
                                   session_birth_data.location, today) = << >>
          /\ validate_location_data(session_birth_data.location) = << >>
    /\ InTransit => Saved /\ birth_date = session_birth_data.date
    /\ InDasha =>
          /\ Saved
          /\ birth_datetime = session_birth_data.hour * 60 + session_birth_data.minute

\* a missing date, a date after today and a missing time are each refused
\* by the validation, and a submission so refused stores nothing
RefusedAtBoundary ==
    /\ Shows(validate_birth_inputs(Missing, create_time_from_components(13, 35), PuneIndia, today),
             "Birth date is required")
    /\ Shows(validate_birth_inputs(NextDay(today), create_time_from_components(13, 35), PuneIndia, today),
             "Birth date cannot be in the future")
    /\ Shows(validate_birth_inputs(today, Missing, PuneIndia, today),
             "Birth time is required")
    /\ validate_birth_inputs(today, create_time_from_components(0, 0), PuneIndia, today) = << >>
    /\ ProcessBirthData(session_birth_data, NextDay(today), 13, 35, "Pune", "", "India",
                        Pune, today).birth_data = session_birth_data

\* a submission that displays errors leaves the session as it was, and the
\* session changes only by a submission without errors
RejectedKeepsSession ==
    /\ errors' # << >> => session_birth_data' = session_birth_data
    /\ session_birth_data' # session_birth_data => errors' = << >>

\* C19: birth data without a date or a time, or with a birth date in the
\* future, is rejected before any computation: after any sequence of
\* submissions of the form the birth data of the session, the only input the
\* Dasha page and the Transit page pass to the calculators, has passed
\* validation, and a submission that fails validation leaves the birth data
\* of the session unchanged.
C19_ValidatedAtBoundary ==
    /\ [](SessionValidated /\ RefusedAtBoundary)
    /\ [][RejectedKeepsSession]_vars

\* birth data saved on the first day, a later submission refused, the clock
\* past midnight, and the Transit page computing with the saved date
C19_Witness ==
    /\ pc = "transit"
    /\ IsSome(complete_timeline)
    /\ Saved
    /\ errors # << >>
    /\ session_birth_data.date = FirstDay
    /\ today # FirstDay
    /\ birth_date = FirstDay

\* ------------------------------------- claims on current and upcoming
Current == current_afflictions.value
UpcomingList == upcoming_afflictions.value
Computed == SadeSathi \o Ashtama
Key(period) == << period.name, period.start_date >>
Keys(periods) == { Key(periods[i]) : i \in 1..Len(periods) }
Matching(periods, Test(_)) == { i \in 1..Len(periods) : Test(periods[i]) }

\* C20: for any 'now' and horizon h, get_current_afflictions returns exactly
\* the computed Sade Sathi and Ashtama Shani periods with start <= now <=
\* end, and get_upcoming_afflictions(h) exactly those with now < start <=
\* now + h years (of 365 days); so no period is reported both 'Active Now'
\* and 'Upcoming' for the same now, and remaining_days and days_until_start
\* are never negative.
C20_CurrentAndUpcoming ==
    /\ (IsSome(complete_timeline) /\ IsSome(current_afflictions)) =>
          LET Active(period) == /\ period.start_date <= current_now
                                /\ current_now <= period.end_date
          IN  /\ Keys(Current) = { Key(Computed[i]) : i \in Matching(Computed, Active) }
              /\ Len(Current) = Cardinality(Matching(Computed, Active))
              /\ \A i \in 1..Len(Current) :
                    /\ Current[i].status = "Active Now"
                    /\ Current[i].start_date <= current_now
                    /\ current_now <= Current[i].end_date
                    /\ Current[i].remaining_days >= 0
                    /\ Current[i].remaining_days
                           = (Current[i].end_date - current_now) \div MinutesPerDay
    /\ (IsSome(complete_timeline) /\ IsSome(upcoming_afflictions)) =>
          LET future_date == upcoming_now + years_ahead * 365 * MinutesPerDay
              Ahead(period) == /\ upcoming_now < period.start_date
                               /\ period.start_date <= future_date
          IN  /\ Keys(UpcomingList) = { Key(Computed[i]) : i \in Matching(Computed, Ahead) }
              /\ Len(UpcomingList) = Cardinality(Matching(Computed, Ahead))
              /\ \A i \in 1..Len(UpcomingList) :
                    /\ UpcomingList[i].status = "Upcoming"
                    /\ upcoming_now < UpcomingList[i].start_date
                    /\ UpcomingList[i].start_date <= future_date
                    /\ UpcomingList[i].days_until_start >= 0
                    /\ UpcomingList[i].days_until_start
                           = (UpcomingList[i].start_date - upcoming_now) \div MinutesPerDay
              /\ \A i \in 1..(Len(UpcomingList) - 1) :
                    UpcomingList[i].start_date <= UpcomingList[i + 1].start_date
              /\ (IsSome(current_afflictions) /\ upcoming_now = current_now) =>
                    Keys(Current) \cap Keys(UpcomingList) = {}

\* the same now for both calls, the very instant a period ends: it is still
\* active, and a later period is upcoming
C20_Witness ==
    /\ pc = "transit"
    /\ IsSome(complete_timeline)
    /\ IsSome(current_afflictions)
    /\ IsSome(upcoming_afflictions)
    /\ upcoming_now = current_now
    /\ Len(Current) >= 1
    /\ Len(UpcomingList) >= 1
    /\ \E i \in 1..Len(Current) : Current[i].end_date = current_now

\* ------------------------------------------- further claims on the Dasha
\* C21 (as stated): a Moon longitude of exactly 360.0 is reduced modulo 360
\* and resolved like longitude 0, nakshatra 1 with lord Ketu; it gives neither
\* an index out of range nor a failed resolution.
C21_Tolerates360 ==
    (InRequest /\ moon = Longitude(360, 0)) =>
        /\ calculate_moon_nakshatra(moon) = calculate_moon_nakshatra(Longitude(0, 0))
        /\ IsSome(calculate_moon_nakshatra(moon))
        /\ calculate_moon_nakshatra(moon).value.nakshatra_number = 1
        /\ calculate_moon_nakshatra(moon).value.nakshatra_lord = "Ketu"
        /\ current_dasha.state = "returned" => IsSome(current_dasha)
        /\ timeline_data.state = "returned" => IsSome(timeline_data)

\* the lengths, in years, of the periods of a sequence of planets, added up
RECURSIVE YearsOf(_)
YearsOf(planets) ==
    IF planets = << >> THEN 0
    ELSE DASHA_PERIODS[Head(planets)] + YearsOf(Tail(planets))

\* the planets of the timeline entries i..j
PlanetsOf(tl, i, j) == [k \in 1..(j - i + 1) |-> tl[i + k - 1].planet]

\* where the birth period ends, as get_current_dasha computes it
BirthPeriodEnd ==
    birth_datetime
    + Timedelta(calculate_dasha_start_date(birth_datetime, moon).value.remaining_at_birth_years)

\* C22: the nine lengths of DASHA_PERIODS add up to exactly 120 years, so
\* consecutive periods after the birth period span exactly the sum of their
\* lengths times 365.25 days, and nine of them exactly 120 x 365.25 days: in a
\* timeline, and in the walk of get_current_dasha from the end of the birth
\* period.
C22_CycleSum ==
    /\ YearsOf(planet_sequence) = 120
    /\ IsSome(timeline_data) =>
           \A i \in 2..Len(Entries) : \A j \in i..Len(Entries) :
               /\ Entries[j].end_date - Entries[i].start_date
                      = YearsOf(PlanetsOf(Entries, i, j)) * YearTicks
               /\ j - i + 1 = 9 =>
                      Entries[j].end_date - Entries[i].start_date = 120 * YearTicks
    /\ (pc = "current_loop" /\ advances = 9) =>
           current_start = BirthPeriodEnd + 120 * YearTicks

\* a timeline of eight periods after the birth period has been returned, and
\* get_current_dasha has walked nine whole periods past the birth period
C22_Witness ==
    /\ IsSome(timeline_data)
    /\ Len(Entries) = 9
    /\ current_dasha.state = "returned"
    /\ advances = 9

\* C23 (as stated): get_current_dasha selects with the half-open rule
\* start <= now < end: at an instant that is exactly the end of a period, it
\* returns the following period, started at that instant with nothing elapsed,
\* not the ending one with nothing remaining.
C23_HalfOpenAtBoundary ==
    (pc = "page" /\ IsSome(current_dasha) /\ IsSome(timeline_data)) =>
        \A i \in 1..(Len(Entries) - 1) :
            current_date = Entries[i].end_date =>
                /\ current_dasha.value.current_planet = Entries[i + 1].planet
                /\ current_dasha.value.dasha_start_date = current_date
                /\ current_dasha.value.elapsed_years = RealOfInt(0)
                /\ current_dasha.value.remaining_years # RealOfInt(0)

\* the entries of a timeline that are marked current
CurrentEntries(tl) == { i \in 1..Len(tl) : tl[i].is_current }

\* C24 (as stated): for the same birth data and the same instant, at or after
\* birth and before the 100-year horizon, the period returned by
\* get_current_dasha is the one entry of the timeline marked current (same
\* planet, same start, same end) and the instant lies between its start and
\* its end, also within one day of a period boundary.
C24_SameAsTimeline ==
    (/\ pc = "page"
     /\ IsSome(current_dasha)
     /\ IsSome(timeline_data)
     /\ Age >= 0
     /\ current_date < Horizon) =>
        /\ Cardinality(CurrentEntries(Entries)) = 1
        /\ \A i \in CurrentEntries(Entries) :
               /\ current_dasha.value.current_planet = Entries[i].planet
               /\ current_dasha.value.dasha_start_date = Entries[i].start_date
               /\ current_dasha.value.end_date = Entries[i].end_date
        /\ current_dasha.value.dasha_start_date <= current_date
        /\ current_date <= current_dasha.value.end_date

C26_CoversLife ==
    /\ pc = "timeline_loop" => Len(timeline) <= 18
    /\ IsSome(timeline_data) =>
           /\ Entries[1].start_date <= birth_datetime
           /\ birth_datetime < Entries[1].end_date
           /\ \A i \in 1..(Len(Entries) - 1) :
                  Entries[i + 1].start_date = Entries[i].end_date
           /\ Last(Entries).start_date < Horizon
           /\ Horizon <= Last(Entries).end_date
           /\ \A i \in 1..Len(Entries) : Entries[i].start_date < Horizon

\* ------------------------------------- further claims on the afflictions
\* C27 (as stated): in every Sade Sathi record the saturn_house field is the
\* house Saturn occupies from the Moon sign at the sample instant, and phase
\* and intensity go with it: 12 with Rising and Moderate, 1 with Peak and
\* High, 2 with Setting and Moderate.
C27_HousePhaseIntensity ==
    IsSome(complete_timeline) =>
        \A i \in 1..Len(SadeSathi) :
            LET period == SadeSathi[i]
                saturn_sign == SaturnSignAt(period.start_date).value.sign
            IN  /\ period.saturn_house = HouseFrom(SignNumber(period.moon_sign), saturn_sign)
                /\ \/ /\ period.saturn_house = 12
                      /\ period.phase = "Rising (Arohini)"
                      /\ period.intensity = "Moderate"
                   \/ /\ period.saturn_house = 1
                      /\ period.phase = "Peak (Madhya)"
                      /\ period.intensity = "High"
                   \/ /\ period.saturn_house = 2
                      /\ period.phase = "Setting (Avarohi)"
                      /\ period.intensity = "Moderate"

\* the step between two sample instants, and the length of a period
SaturnCycle == Days(IntDays(295))
SadeSathiLength == Days(IntDays(75))

\* C28: within one result of calculate_sade_sathi_periods the periods come in
\* increasing start order, two starts differ by a positive multiple of the
\* 29.5-year step (int(29.5 x 365.25) days), every period lasts
\* int(7.5 x 365.25) days and starts at or after birth; so no two periods
\* overlap and every period ends within the 100-year horizon.
C28_SpacedPeriods ==
    IsSome(complete_timeline) =>
        /\ \A i \in 1..Len(SadeSathi) :
              /\ SadeSathi[i].end_date - SadeSathi[i].start_date = SadeSathiLength
              /\ SadeSathi[i].start_date >= FirstSample(birth_date)
              /\ SadeSathi[i].end_date <= Horizon100(birth_date).value.end_date
        /\ \A i \in 1..Len(SadeSathi) : \A j \in (i + 1)..Len(SadeSathi) :
              /\ SadeSathi[i].start_date < SadeSathi[j].start_date
              /\ \E k \in 1..3 :
                    SadeSathi[j].start_date - SadeSathi[i].start_date = k * SaturnCycle
              /\ SadeSathi[i].end_date <= SadeSathi[j].start_date

\* three periods returned, the last two of them two steps apart, the last one
\* starting at the fourth sample
C28_Witness ==
    /\ IsSome(complete_timeline)
    /\ Len(SadeSathi) = 3
    /\ SadeSathi[2].start_date - SadeSathi[1].start_date = SaturnCycle
    /\ SadeSathi[3].start_date - SadeSathi[2].start_date = 2 * SaturnCycle
    /\ SadeSathi[3].start_date = FirstSample(birth_date) + 3 * SaturnCycle

\* C29 (as stated): for every valid calendar birth date passed as a date
\* without a time, 29 February of a leap year whose hundredth anniversary year
\* is not a leap year included, calculate_sade_sathi_periods and
\* calculate_ashtama_shani_periods compute their end date 100 years on and
\* return a list; neither raises.
C29_EveryDateReturns ==
    (InTransit /\ ~HasHour(birth_date)) =>
        /\ IsSome(calculate_sade_sathi_periods(birth_date, sky))
        /\ IsSome(calculate_ashtama_shani_periods(birth_date, sky))
        /\ complete_timeline # Raised

\* C30: whenever the nakshatra resolves, get_current_dasha returns a period,
\* never None, for every instant at or after birth: the advance loop is only
\* ever entered and continued with a positive years_to_account, so the
\* 'return None' after it is not reached; the period returned has
\* 0 <= elapsed_years <= total_period_years and remaining_years >= 0.
C30_AlwaysAPeriod ==
    (InRequest /\ Age >= 0 /\ IsSome(calculate_moon_nakshatra(moon))) =>
        /\ pc = "current_loop" => RealLt(RealOfInt(0), years_to_account)
        /\ current_dasha.state = "returned" =>
              /\ IsSome(current_dasha)
              /\ RealLeq(RealOfInt(0), current_dasha.value.elapsed_years)
              /\ RealLeq(current_dasha.value.elapsed_years,
                         Years(current_dasha.value.total_period_years))
              /\ RealLeq(RealOfInt(0), current_dasha.value.remaining_years)

\* a period found by the advance loop, at the very end of the range: all of
\* it elapsed, nothing remaining
C30_Witness ==
    /\ InRequest
    /\ Age > 0
    /\ IsSome(current_dasha)
    /\ advances >= 1
    /\ current_dasha.value.elapsed_years = Years(current_dasha.value.total_period_years)
    /\ current_dasha.value.remaining_years = RealOfInt(0)

====
